---- MODULE Spec2Model ----
(***************************************************************************)
(* Model of the resume analysis pipeline.                                  *)
(*                                                                         *)
(*   handleAnalyze   src/app/routes/upload.tsx        (the orchestrator)   *)
(*   Puter*Service   src/unnamed/part_000             (the port adapters)  *)
(*   convertPdfToImage   src/app/lib/pdf2img.ts       (the renderer)       *)
(*                                                                         *)
(* JavaScript values are written as records: an object is the record of    *)
(* its properties, `undefined` is UndefinedV, a missing string property is *)
(* the string Undef.  Time is counted in units of 30 seconds, the greatest *)
(* common divisor of every timeout of the code (30 s, 60 s, 120 s, 300 s). *)
(* A timer fires when the clock reaches its due time: the clock does not   *)
(* advance past a timer that is due.                                       *)
(***************************************************************************)
EXTENDS Integers, Sequences, FiniteSets, TLC

VARIABLES
    env,           \* what stands behind the ports: "doubles" | "puter" | "noputer"
    now,           \* the clock, in units of 30 s
    pc,            \* position of handleAnalyze (the await it is suspended at)
    isProcessing,  \* useState(false), upload.tsx:13
    statusText,    \* useState(''), upload.tsx:14
    statusLog,     \* every value given to setStatusText, in order
    globalTimer,   \* globalTimeoutId: [state, due]
    uploadedFile,  \* const uploadedFile, upload.tsx:52
    imageFile,     \* let imageFile, upload.tsx:59
    uploadedImage, \* const uploadedImage, upload.tsx:75
    uuid,          \* const uuid, upload.tsx:83
    idCount,       \* number of generateUUID() calls made
    data,          \* const data, upload.tsx:85
    parsed,        \* whether JSON.parse of upload.tsx:138 has returned
    navigated,     \* the argument of navigate(), upload.tsx:164
    failedAt,      \* the stage whose error return ended the run
    calls,         \* the port and renderer calls made, in order
    results,       \* the outcome of each call of `calls`
    awaiting,      \* what the call in flight is waiting on
    timers,        \* the adapters' setTimeout timers that have not fired yet
    kvStore,       \* the Key-Value Store behind kv.set
    second,        \* a second call of handleAnalyze, up to its first await
    pdfjsLib,      \* let pdfjsLib, pdf2img.ts:20
    isLoading,     \* let isLoading, pdf2img.ts:21
    loadPromise,   \* let loadPromise, pdf2img.ts:22
    pdfCache,      \* const pdfCache, pdf2img.ts:8
    convs,         \* the calls of convertPdfToImage made, in order
    imports,       \* number of import("pdfjs-dist/build/pdf.mjs") started
    urls           \* number of URL.createObjectURL() calls made

rendererVars == << pdfjsLib, isLoading, loadPromise, pdfCache, convs, imports, urls >>

vars == << env, now, pc, isProcessing, statusText, statusLog, globalTimer,
           uploadedFile, imageFile, uploadedImage, uuid, idCount, data, parsed,
           navigated, failedAt, calls, results, awaiting, timers, kvStore,
           second, rendererVars >>

runVars == << isProcessing, statusText, statusLog, globalTimer, uploadedFile,
              imageFile, uploadedImage, uuid, idCount, data, parsed, navigated,
              failedAt >>

appVars == << env, now, pc, runVars, calls, results, awaiting, timers, kvStore, second >>

-----------------------------------------------------------------------------
(* Bounds of the model *)

\* the clock stops here
MaxNow == 12
\* number of adapter calls the port driver of PortSpec makes
MaxProbes == 2

(* Timeouts of the code, in units of 30 s *)

\* 300000 ms, upload.tsx:49
GlobalTimeout == 10
\* 60000 ms, part_000:233
UploadTimeout == 2
\* 30000 ms, part_000:363
KvGetTimeout == 1
\* 60000 ms, part_000:391
KvSetTimeout == 2
\* 120000 ms, part_000:489
FeedbackTimeout == 4

-----------------------------------------------------------------------------
(* JavaScript values *)

UndefinedV == [undefined |-> TRUE]
Undef == "undefined"
NoId == "none"

Truthy(v) == v # UndefinedV

\* obj.name for a string-valued property: Undef when the property is missing
Prop(obj, name) == IF name \in DOMAIN obj THEN obj[name] ELSE Undef

\* a thrown or rejected value: `err instanceof Error ? err.message : fallback`
ErrorMessage(err, fallback) == IF err.isError THEN err.message ELSE fallback

NetworkError == [isError |-> TRUE, message |-> "Network error"]
NonError == [isError |-> FALSE, message |-> "rejected with a string"]
\* new Error(): an Error whose message is the empty string
EmptyError == [isError |-> TRUE, message |-> ""]
Rejections == {NetworkError, NonError, EmptyError}

IsError(s) == Len(s) >= 6 /\ SubSeq(s, 1, 6) = "Error:"

-----------------------------------------------------------------------------
(* The inputs of one run *)

File == [name |-> "resume.pdf", kind |-> "document"]
CompanyName == "ACME"
JobTitle == "Engineer"
JobDescription == "Builds things"

UUIDs == {"u1", "u2"}

DocumentItem == [path |-> "/store/resume.pdf", name |-> "resume.pdf"]
ImageItem == [path |-> "/store/resume.png", name |-> "resume.png"]

\* what the backend stores for an uploaded file
StoredItem(file) == IF file.kind = "document" THEN DocumentItem ELSE ImageItem

ImagePng == [name |-> "resume.png", kind |-> "image"]
\* null, and the booleans, as values
NullV == [null |-> TRUE]
BoolV(b) == [boolean |-> b]

\* the texts an inference response can carry
TextObject == "{\"score\":80}"
TextEmptyString == "\"\""
TextInvalid == "Here is my feedback"
Texts == {TextObject, TextEmptyString, TextInvalid}

\* message.content is a string, or a sequence whose elements carry a text
StringContent(t) == [form |-> "string", text |-> t, items |-> << >>]
SequenceContent(items) == [form |-> "sequence", text |-> "", items |-> items]
TextItem(t) == [type |-> "text", text |-> t]

AIResponses ==
    {[message |-> [content |-> StringContent(t)]] : t \in Texts}
    \cup {[message |-> [content |-> SequenceContent(<< TextItem(t) >>)]] : t \in Texts}
    \cup {[message |-> [content |-> SequenceContent(<< TextItem(TextObject),
                                                       TextItem(TextInvalid) >>)]]}
    \cup {[message |-> [content |-> SequenceContent(<< >>)]]}

\* JSON values: the empty string, and the structured feedback object
JsonString(s) == [json |-> "string", string |-> s]
JsonObject == [json |-> "object", score |-> 80]

\* JSON.parse: the value of a text that is JSON, a SyntaxError otherwise
ParseJSON(t) ==
    CASE t = TextObject -> [ok |-> TRUE, value |-> JsonObject]
      [] t = TextEmptyString -> [ok |-> TRUE, value |-> JsonString("")]
      [] OTHER -> [ok |-> FALSE, value |-> JsonString("")]

SyntaxError == [isError |-> TRUE, message |-> "Unexpected token in JSON"]
TypeError == [isError |-> TRUE, message |-> "Cannot read properties of undefined"]

\* JSON.stringify(data): a property whose value is undefined is left out
Stringify(d) ==
    LET gone == {f \in {"resumePath", "imagePath"} : d[f] = Undef}
    IN  [f \in (DOMAIN d) \ gone |-> d[f]]

\* prepareInstructions({jobTitle, jobDescription}) of ../../constants
PrepareInstructions(jobTitle, jobDescription) ==
    "Analyze this resume for the job " \o jobTitle \o ": " \o jobDescription

\* the first argument of ai.feedback: a string, a File, or undefined
PathArg(p) ==
    IF p = Undef THEN [type |-> "undefined", path |-> Undef]
    ELSE [type |-> "string", path |-> p]
FileArg == [type |-> "File", path |-> Undef]

KeyOf(id) == "resume:" \o id

\* a redirect that leaves the identifier out of the route
RouteOfNoId(id) == "/resume/"

RouteOf(id) == "/resume/" \o id

-----------------------------------------------------------------------------
(* The port adapters: PuterFileStorageService, PuterKVService, PuterAIService *)

\* the operations that race their backend call against a timer
TimedOps == {"upload", "kvGet", "kvSet", "feedback"}

Timeout(op) ==
    CASE op = "upload" -> UploadTimeout
      [] op = "kvGet" -> KvGetTimeout
      [] op = "kvSet" -> KvSetTimeout
      [] op = "feedback" -> FeedbackTimeout

TimeoutMessage(op) ==
    CASE op = "upload" -> "File upload timed out after 60 seconds"
      [] op = "kvGet" -> "Key-value store get operation timed out after 30 seconds"
      [] op = "kvSet" -> "Key-value store set operation timed out after 60 seconds"
      [] op = "feedback" -> "AI feedback operation timed out after 120 seconds"

FallbackMessage(op) ==
    CASE op = "upload" -> "Upload failed"
      [] op = "kvGet" -> "Get operation failed"
      [] op = "kvSet" -> "Set operation failed"
      [] op = "feedback" -> "Feedback operation failed"
      [] op = "read" -> "Read failed"
      [] op = "write" -> "Write failed"
      [] op = "delete" -> "Delete failed"
      [] op = "list" -> "List operation failed"
      [] op = "kvDelete" -> "Delete operation failed"
      [] op = "kvList" -> "List operation failed"
      [] op = "kvFlush" -> "Flush operation failed"
      [] op = "chat" -> "Chat operation failed"
      [] op = "img2txt" -> "Image-to-text operation failed"
      [] op = "getUser" -> "Failed to get user"
      [] op = "signIn" -> "Sign in failed"
      [] op = "signOut" -> "Sign out failed"

OrEmpty(s) == IF s = Undef THEN "" ELSE s

\* `a || b || ""` of two string properties
Either(obj, a, b) ==
    IF Prop(obj, a) \notin {Undef, ""} THEN Prop(obj, a) ELSE OrEmpty(Prop(obj, b))

\* the FileItem made of what the backend returned
FileItem(raw) == [name |-> OrEmpty(Prop(raw, "name")), path |-> OrEmpty(Prop(raw, "path"))]

\* what the adapter returns when its backend call has resolved with raw
AdapterData(op, raw) ==
    CASE op = "upload" -> [data |-> FileItem(raw)]
      [] op = "write" -> IF Truthy(raw) THEN [data |-> FileItem(raw)]
                         ELSE [error |-> "Write operation returned no result"]
      [] op = "list" -> IF Truthy(raw)
                        THEN [data |-> [i \in DOMAIN raw.items |-> FileItem(raw.items[i])]]
                        ELSE [data |-> << >>]
      [] op = "getUser" -> [data |-> [id |-> Either(raw, "id", "uuid"),
                                      name |-> Either(raw, "name", "username"),
                                      email |-> OrEmpty(Prop(raw, "email"))]]
      [] op \in {"delete", "signIn", "signOut"} -> [data |-> UndefinedV]
      [] OTHER -> [data |-> raw]

\* `catch (err) { return { error: ... } }`
AdapterError(op, err) == [error |-> ErrorMessage(err, FallbackMessage(op))]

\* the timer's `reject(new Error(...))`, caught by the same catch
AdapterTimedOut(op) == AdapterError(op, [isError |-> TRUE, message |-> TimeoutMessage(op)])

\* `if (!puter) return { error: "Puter.js not available" }`
Unavailable == [error |-> "Puter.js not available"]

\* uploadFileForAI's catch
UploadForAIError(err) == [error |-> ErrorMessage(err, "File upload for AI failed")]

\* feedback(file, message): `typeof file === 'string'`
TakesPath(call) == call.op # "feedback" \/ call.file.type = "string"

-----------------------------------------------------------------------------
(* Calls in flight *)

Pending == [how |-> "pending"]
Returned(v) == [how |-> "returned", value |-> v]
Threw(e) == [how |-> "threw", error |-> e]

Idle == [on |-> "nothing", due |-> 0, timeoutRejected |-> FALSE, path |-> Undef]

\* what a call that starts now waits on
AwaitOf(call) ==
    [on |-> IF call.op = "convert" THEN "renderer"
            ELSE IF env = "doubles" THEN "double"
            ELSE IF env = "noputer" THEN "unavailable"
            ELSE IF call.op \notin TimedOps THEN "backend"
            ELSE IF TakesPath(call) THEN "race"
            ELSE "uploadForAI",
     due |-> IF call.op \in TimedOps /\ env = "puter" THEN now + Timeout(call.op) ELSE 0,
     timeoutRejected |-> FALSE,
     \* filePath, part_000:528: the path uploadFileForAI has returned
     path |-> Undef]

\* the timer an adapter starts for the call: `setTimeout(() => reject(...), ms)`
TimersOf(call) ==
    IF call.op \in TimedOps /\ env = "puter"
    THEN {[call |-> Len(calls) + 1, op |-> call.op, due |-> now + Timeout(call.op)]}
    ELSE {}

Settled(o) == [results EXCEPT ![Len(results)] = o]

\* the awaited call settles with o and no further call is made
Stop(o, tm) ==
    /\ calls' = calls
    /\ results' = Settled(o)
    /\ awaiting' = Idle
    /\ timers' = tm

\* the awaited call settles with o and the next call is made
Issue(call, o, tm) ==
    /\ calls' = Append(calls, call)
    /\ results' = Append(Settled(o), Pending)
    /\ awaiting' = AwaitOf(call)
    /\ timers' = tm \cup TimersOf(call)

-----------------------------------------------------------------------------
(* handleAnalyze, upload.tsx:41-170 *)

Emit(texts) ==
    /\ statusText' = texts[Len(texts)]
    /\ statusLog' = statusLog \o texts

\* clearTimeout(globalTimeoutId)
ClearTimeout(t) == IF t.state = "armed" THEN [t EXCEPT !.state = "cleared"] ELSE t

\* `clearTimeout(globalTimeoutId); return setStatusText(text)`
Fail(stage, text, o, tm) ==
    /\ globalTimer' = ClearTimeout(globalTimer)
    /\ Emit(<< text >>)
    /\ pc' = "failed"
    /\ failedAt' = stage
    /\ Stop(o, tm)
    /\ UNCHANGED << isProcessing, uploadedFile, imageFile, uploadedImage, uuid,
                    idCount, data, parsed, navigated >>

\* an exception leaves handleAnalyze: its promise rejects, nothing is cleaned up
Crash(o, tm) ==
    /\ pc' = "crashed"
    /\ Stop(o, tm)
    /\ UNCHANGED runVars

\* upload.tsx:42-52
HandleAnalyze ==
    /\ pc = "idle"
    /\ isProcessing' = TRUE
    /\ globalTimer' = [state |-> "armed", due |-> now + GlobalTimeout]
    /\ Emit(<< "Uploading the file..." >>)
    /\ pc' = "uploadDoc"
    /\ calls' = Append(calls, [op |-> "upload", file |-> File])
    /\ results' = Append(results, Pending)
    /\ awaiting' = AwaitOf([op |-> "upload", file |-> File])
    /\ timers' = timers \cup TimersOf([op |-> "upload", file |-> File])
    /\ UNCHANGED << rendererVars, second, env, now, uploadedFile, imageFile, uploadedImage, uuid, idCount,
                    data, parsed, navigated, failedAt, kvStore >>

\* upload.tsx:52-61
AfterUploadDoc(o, tm) ==
    IF o.how = "threw" THEN Crash(o, tm)
    ELSE IF ~Truthy(o.value) THEN Fail("upload", "Error: Failed to upload file", o, tm)
    ELSE /\ uploadedFile' = o.value
         /\ Emit(<< "Converting to image..." >>)
         /\ pc' = "convert"
         /\ Issue([op |-> "convert", file |-> File], o, tm)
         /\ UNCHANGED << isProcessing, globalTimer, imageFile, uploadedImage, uuid,
                         idCount, data, parsed, navigated, failedAt >>

\* the conversion awaited outside the try: an exception of the renderer leaves the run
AfterConvertUncaught(o, tm) ==
    IF o.how = "threw" THEN Crash(o, tm)
    ELSE IF o.value.file = NullV
    THEN Fail("convert",
              "Error: " \o (IF Prop(o.value, "error") \in {Undef, ""}
                            THEN "Failed to convert PDF to image"
                            ELSE o.value.error), o, tm)
    ELSE /\ imageFile' = o.value
         /\ Emit(<< "Uploading the image..." >>)
         /\ pc' = "uploadImage"
         /\ Issue([op |-> "upload", file |-> o.value.file], o, tm)
         /\ UNCHANGED << isProcessing, globalTimer, uploadedFile, uploadedImage, uuid,
                         idCount, data, parsed, navigated, failedAt >>

\* upload.tsx:61-75
AfterConvert(o, tm) ==
    IF o.how = "threw"
    THEN Fail("convert",
              "Error: " \o ErrorMessage(o.error, "Failed to convert PDF to image"), o, tm)
    ELSE IF o.value.file = NullV
    THEN Fail("convert",
              "Error: " \o (IF Prop(o.value, "error") \in {Undef, ""}
                            THEN "Failed to convert PDF to image"
                            ELSE o.value.error), o, tm)
    ELSE /\ imageFile' = o.value
         /\ Emit(<< "Uploading the image..." >>)
         /\ pc' = "uploadImage"
         /\ Issue([op |-> "upload", file |-> o.value.file], o, tm)
         /\ UNCHANGED << isProcessing, globalTimer, uploadedFile, uploadedImage, uuid,
                         idCount, data, parsed, navigated, failedAt >>

\* a record that is created with its feedback already filled in
NewDataPrefilled(id, file, image) ==
    [id |-> id,
     resumePath |-> Prop(file, "path"),
     imagePath |-> Prop(image, "path"),
     companyName |-> CompanyName,
     jobTitle |-> JobTitle,
     jobDescription |-> JobDescription,
     feedback |-> JsonObject]

\* the record of upload.tsx:85-91
NewData(id, file, image) ==
    [id |-> id,
     resumePath |-> Prop(file, "path"),
     imagePath |-> Prop(image, "path"),
     companyName |-> CompanyName,
     jobTitle |-> JobTitle,
     jobDescription |-> JobDescription,
     feedback |-> JsonString("")]

\* a set call whose key does not come from the identifier of the run
SetCallFixedKey(id, d) == [op |-> "kvSet", key |-> "resume:u1", value |-> Stringify(d)]

\* kv.set(`resume:${uuid}`, JSON.stringify(data)), upload.tsx:96 and 148
SetCall(id, d) == [op |-> "kvSet", key |-> KeyOf(id), value |-> Stringify(d)]

\* upload.tsx:75-96
AfterUploadImage(o, tm) ==
    IF o.how = "threw" THEN Crash(o, tm)
    ELSE IF ~Truthy(o.value) THEN Fail("upload", "Error: Failed to upload image", o, tm)
    ELSE \E id \in UUIDs :
         /\ uploadedImage' = o.value
         /\ Emit(<< "Preparing data..." >>)
         /\ uuid' = id
         /\ idCount' = idCount + 1
         /\ data' = NewData(id, uploadedFile, o.value)
         /\ pc' = "setInitial"
         /\ Issue(SetCall(id, NewData(id, uploadedFile, o.value)), o, tm)
         /\ UNCHANGED << isProcessing, globalTimer, uploadedFile, imageFile, parsed,
                         navigated, failedAt >>

\* ai.feedback(uploadedFile.path, instructions), upload.tsx:110-116
FeedbackCall(file) ==
    [op |-> "feedback",
     file |-> PathArg(Prop(file, "path")),
     message |-> PrepareInstructions(JobTitle, JobDescription)]

\* upload.tsx:96-113
AfterSetInitial(o, tm) ==
    IF o.how = "threw"
    THEN Fail("persist", "Error: Failed to store data. " \o ErrorMessage(o.error, ""), o, tm)
    ELSE /\ Emit(<< "Analyzing..." >>)
         /\ pc' = "feedback"
         /\ Issue(FeedbackCall(uploadedFile), o, tm)
         /\ UNCHANGED << isProcessing, globalTimer, uploadedFile, imageFile,
                         uploadedImage, uuid, idCount, data, parsed, navigated, failedAt >>

\* only a content that is a string is read
FeedbackTextStringOnly(feedback) ==
    IF "message" \notin DOMAIN feedback THEN [ok |-> FALSE, text |-> ""]
    ELSE LET content == feedback.message.content
         IN  IF content.form = "string" THEN [ok |-> TRUE, text |-> content.text]
             ELSE [ok |-> FALSE, text |-> ""]

\* upload.tsx:133-135: the text of the response, or the TypeError of reading it
FeedbackText(feedback) ==
    IF "message" \notin DOMAIN feedback THEN [ok |-> FALSE, text |-> ""]
    ELSE LET content == feedback.message.content
         IN  IF content.form = "string" THEN [ok |-> TRUE, text |-> content.text]
             ELSE IF Len(content.items) = 0 THEN [ok |-> FALSE, text |-> ""]
             ELSE [ok |-> TRUE, text |-> content.items[1].text]

\* upload.tsx:113-148
AfterFeedback(o, tm) ==
    IF o.how = "threw"
    THEN Fail("analyze", "Error: Failed to analyze resume. " \o ErrorMessage(o.error, ""), o, tm)
    ELSE IF ~Truthy(o.value) THEN Fail("analyze", "Error: Failed to analyze resume", o, tm)
    ELSE LET t == FeedbackText(o.value)
             j == ParseJSON(t.text)
         IN  IF ~t.ok
             THEN Fail("parse", "Error: Failed to parse feedback. " \o TypeError.message, o, tm)
             ELSE IF ~j.ok
             THEN Fail("parse", "Error: Failed to parse feedback. " \o SyntaxError.message, o, tm)
             ELSE /\ data' = [data EXCEPT !.feedback = j.value]
                  /\ parsed' = TRUE
                  /\ pc' = "setFinal"
                  /\ Issue(SetCall(uuid, [data EXCEPT !.feedback = j.value]), o, tm)
                  /\ UNCHANGED << isProcessing, statusText, statusLog, globalTimer,
                                  uploadedFile, imageFile, uploadedImage, uuid, idCount,
                                  navigated, failedAt >>

\* upload.tsx:148-165.  navigate() is react-router's: it schedules the
\* navigation and returns, so the catch of upload.tsx:166-169 is not entered.
AfterSetFinal(o, tm) ==
    IF o.how = "threw"
    THEN Fail("persist", "Error: Failed to store feedback. " \o ErrorMessage(o.error, ""), o, tm)
    ELSE /\ globalTimer' = ClearTimeout(globalTimer)
         /\ Emit(<< "Analysis complete, redirecting..." >>)
         /\ navigated' = RouteOf(uuid)
         /\ pc' = "done"
         /\ Stop(o, tm)
         /\ UNCHANGED << isProcessing, uploadedFile, imageFile, uploadedImage, uuid,
                         idCount, data, parsed, failedAt >>

\* the port driver of PortSpec takes the adapter's result
AfterProbe(o, tm) ==
    /\ pc' = "probe"
    /\ Stop(o, tm)
    /\ UNCHANGED runVars

\* the continuation of the await that the call in flight settles
Resume(o, tm) ==
    CASE pc = "uploadDoc" -> AfterUploadDoc(o, tm)
      [] pc = "convert" -> AfterConvert(o, tm)
      [] pc = "uploadImage" -> AfterUploadImage(o, tm)
      [] pc = "setInitial" -> AfterSetInitial(o, tm)
      [] pc = "feedback" -> AfterFeedback(o, tm)
      [] pc = "setFinal" -> AfterSetFinal(o, tm)
      [] pc = "probe" -> AfterProbe(o, tm)

\* a timer callback that reports the timeout and leaves the processing flag set
GlobalTimeoutKeepsProcessing ==
    /\ globalTimer.state = "armed"
    /\ globalTimer.due <= now
    /\ awaiting.on # "unavailable"
    /\ globalTimer' = [globalTimer EXCEPT !.state = "fired"]
    /\ Emit(<< "Error: The operation timed out after 5 minutes. Please try again." >>)
    /\ UNCHANGED << rendererVars, second, env, now, pc, isProcessing, uploadedFile, imageFile, uploadedImage,
                    uuid, idCount, data, parsed, navigated, failedAt, calls, results,
                    awaiting, timers, kvStore >>

\* the timer callback of upload.tsx:45-49
GlobalTimeoutFires ==
    /\ globalTimer.state = "armed"
    /\ globalTimer.due <= now
    /\ awaiting.on # "unavailable"
    /\ globalTimer' = [globalTimer EXCEPT !.state = "fired"]
    /\ Emit(<< "Error: The operation timed out after 5 minutes. Please try again." >>)
    /\ isProcessing' = FALSE
    /\ UNCHANGED << rendererVars, second, env, now, pc, uploadedFile, imageFile, uploadedImage, uuid, idCount,
                    data, parsed, navigated, failedAt, calls, results, awaiting, timers,
                    kvStore >>

\* no second call of handleAnalyze has been made
NotStarted ==
    [pc |-> "idle", status |-> "", timer |-> [state |-> "unset", due |-> 0], calls |-> << >>]

\* handleSubmit, upload.tsx:172-186, on the form that upload.tsx:194-227 renders
\* again when isProcessing is false after a run was started: handleAnalyze runs
\* a second time, upload.tsx:42-52, with its own timer and its own fs.upload,
\* and writes the isProcessing and statusText of the component.  The second
\* run is followed to its first await; its upload stays unanswered, and its
\* deadline lies beyond MaxNow.
HandleAnalyzeAgain ==
    /\ pc # "idle"
    /\ ~isProcessing
    /\ second = NotStarted
    /\ isProcessing' = TRUE
    /\ Emit(<< "Uploading the file..." >>)
    /\ second' = [pc |-> "uploadDoc",
                  status |-> "Uploading the file...",
                  timer |-> [state |-> "armed", due |-> now + GlobalTimeout],
                  calls |-> << [op |-> "upload", file |-> File] >>]
    /\ UNCHANGED << rendererVars, env, now, pc, globalTimer, uploadedFile, imageFile,
                    uploadedImage, uuid, idCount, data, parsed, navigated, failedAt,
                    calls, results, awaiting, timers, kvStore >>

-----------------------------------------------------------------------------
(* What the ports, the backend and the renderer can answer *)

CallInFlight == calls[Len(calls)]

\* what a test double of a port returns: the value the caller reads, or undefined
DoubleValues(call) ==
    CASE call.op = "upload" -> {StoredItem(call.file), UndefinedV}
      [] call.op = "kvSet" -> {BoolV(TRUE), UndefinedV}
      [] call.op = "feedback" -> AIResponses \cup {UndefinedV}

\* what the backend call of an adapter resolves with
BackendValues(call) ==
    CASE call.op = "upload" -> {StoredItem(call.file)}
      [] call.op = "kvGet" ->
            {IF call.key \in DOMAIN kvStore THEN kvStore[call.key] ELSE NullV}
      [] call.op = "kvSet" -> {BoolV(TRUE)}
      [] call.op = "feedback" -> AIResponses
      [] call.op = "read" -> {[blob |-> "%PDF"]}
      [] call.op = "write" -> {DocumentItem, UndefinedV}
      [] call.op = "list" -> {[items |-> << DocumentItem, ImageItem >>], UndefinedV}
      [] call.op \in {"kvDelete", "kvFlush"} -> {BoolV(TRUE)}
      [] call.op = "kvList" -> {[keys |-> DOMAIN kvStore]}
      [] call.op = "chat" -> AIResponses
      [] call.op = "img2txt" -> {[text |-> "Curriculum vitae"]}
      [] call.op = "getUser" -> {[id |-> "42", name |-> "ann", email |-> "ann@example.org"],
                                 [uuid |-> "42", username |-> "ann"]}
      [] call.op \in {"delete", "signIn", "signOut"} -> {UndefinedV}

\* the store after the call: a set that succeeded has written its value
StoreAfter(call, written) ==
    IF call.op = "kvSet" /\ written
    THEN (call.key :> call.value) @@ kvStore
    ELSE IF call.op = "kvDelete" /\ written
    THEN [k \in DOMAIN kvStore \ {call.key} |-> kvStore[k]]
    ELSE IF call.op = "kvFlush" /\ written
    THEN << >>
    ELSE kvStore

\* what convertPdfToImage resolves with, pdf2img.ts:69-255
ConvertResults ==
    {[imageUrl |-> "blob:1", file |-> ImagePng],
     [imageUrl |-> "", file |-> NullV, error |-> "File is not a PDF"],
     [imageUrl |-> "", file |-> NullV,
      error |-> "Failed to convert PDF to image: Invalid PDF structure"]}

\* the rejection of pdf2img.ts:153
EncodeTimeout == [isError |-> TRUE, message |-> "Timed out while creating image blob"]

DoubleReturns ==
    /\ awaiting.on = "double"
    /\ \E v \in DoubleValues(CallInFlight) :
        /\ kvStore' = StoreAfter(CallInFlight, Truthy(v))
        /\ Resume(Returned(v), timers)
    /\ UNCHANGED << rendererVars, second, env, now >>

DoubleThrows ==
    /\ awaiting.on = "double"
    /\ \E e \in Rejections : Resume(Threw(e), timers)
    /\ UNCHANGED << rendererVars, second, env, now, kvStore >>

\* the backend call resolves: it wins Promise.race, or it is awaited alone
BackendResolves ==
    /\ awaiting.on \in {"race", "backend"}
    /\ \E raw \in BackendValues(CallInFlight) :
        /\ kvStore' = StoreAfter(CallInFlight, TRUE)
        /\ Resume(Returned(AdapterData(CallInFlight.op, raw)), timers)
    /\ UNCHANGED << rendererVars, second, env, now >>

\* the backend call rejects: it wins Promise.race, or it is awaited alone
BackendRejects ==
    /\ awaiting.on \in {"race", "backend"}
    /\ \E e \in Rejections : Resume(Returned(AdapterError(CallInFlight.op, e)), timers)
    /\ UNCHANGED << rendererVars, second, env, now, kvStore >>

\* part_000:523-551: uploadFileForAI returns a path, then chat is raced against the
\* timeout promise, which may have rejected already
UploadForAIResolves ==
    /\ awaiting.on = "uploadForAI"
    /\ IF awaiting.timeoutRejected
       THEN Resume(Returned(AdapterTimedOut("feedback")), timers)
       ELSE /\ awaiting' = [awaiting EXCEPT !.on = "race", !.path = DocumentItem.path]
            /\ UNCHANGED << pc, runVars, calls, results, timers >>
    /\ UNCHANGED << rendererVars, second, env, now, kvStore >>

\* part_000:523-526 and 571-575: `if (uploadResult.error)` is passed by an error
\* that is the empty string, and chat is called with the path undefined
UploadForAIRejects ==
    /\ awaiting.on = "uploadForAI"
    /\ \E e \in Rejections :
        IF UploadForAIError(e).error # ""
        THEN Resume(Returned(UploadForAIError(e)), timers)
        ELSE IF awaiting.timeoutRejected
        THEN Resume(Returned(AdapterTimedOut("feedback")), timers)
        ELSE /\ awaiting' = [awaiting EXCEPT !.on = "race"]
             /\ UNCHANGED << pc, runVars, calls, results, timers >>
    /\ UNCHANGED << rendererVars, second, env, now, kvStore >>

\* getPuter() returns null
AdapterUnavailable ==
    /\ awaiting.on = "unavailable"
    /\ Resume(Returned(Unavailable), timers)
    /\ UNCHANGED << rendererVars, second, env, now, kvStore >>

\* the setTimeout callback of an adapter: it rejects the timeout promise
TimerFires ==
    \E t \in timers :
        /\ t.due <= now
        /\ IF t.call = Len(calls) /\ awaiting.on = "race"
           THEN Resume(Returned(AdapterTimedOut(t.op)), timers \ {t})
           ELSE /\ timers' = timers \ {t}
                /\ awaiting' = IF t.call = Len(calls) /\ awaiting.on = "uploadForAI"
                               THEN [awaiting EXCEPT !.timeoutRejected = TRUE]
                               ELSE awaiting
                /\ UNCHANGED << pc, runVars, calls, results >>
        /\ UNCHANGED << rendererVars, second, env, now, kvStore >>

ConvertResolves ==
    /\ awaiting.on = "renderer"
    /\ \E r \in ConvertResults : Resume(Returned(r), timers)
    /\ UNCHANGED << rendererVars, second, env, now, kvStore >>

ConvertRejects ==
    /\ awaiting.on = "renderer"
    /\ Resume(Threw(EncodeTimeout), timers)
    /\ UNCHANGED << rendererVars, second, env, now, kvStore >>

\* 30 seconds pass; a timer that is due fires first
Tick ==
    /\ now < MaxNow
    /\ awaiting.on # "unavailable"
    /\ awaiting.on # "nothing" \/ timers # {} \/ globalTimer.state = "armed"
    /\ \A t \in timers : t.due > now
    /\ globalTimer.state = "armed" => globalTimer.due > now
    /\ now' = now + 1
    /\ UNCHANGED << rendererVars, second, env, pc, runVars, calls, results, awaiting, timers, kvStore >>

-----------------------------------------------------------------------------
(* The document renderer, src/app/lib/pdf2img.ts: values *)

\* number of convertPdfToImage calls the driver of RenderSpec makes
MaxConverts == 3

Digit(d) == << "0", "1", "2", "3", "4", "5", "6", "7", "8", "9" >>[d + 1]

RECURSIVE NatString(_)
NatString(n) == IF n < 10 THEN Digit(n) ELSE NatString(n \div 10) \o Digit(n % 10)

\* `${n}` of a number
NumberString(n) == IF n < 0 THEN "-" \o NatString(0 - n) ELSE NatString(n)

\* s.includes(sub)
Includes(s, sub) ==
    \E i \in 1..(Len(s) - Len(sub) + 1) : SubSeq(s, i, i + Len(sub) - 1) = sub

\* what /\.pdf$/i matches
PdfSuffixes == {".pdf", ".pdF", ".pDf", ".pDF", ".Pdf", ".PdF", ".PDf", ".PDF"}

\* file.name.replace(/\.pdf$/i, "")
OriginalName(name) ==
    LET n == Len(name) IN
    IF n >= 4 /\ SubSeq(name, n - 3, n) \in PdfSuffixes THEN SubSeq(name, 1, n - 4) ELSE name

PdfType == "application/pdf"

\* the documents given to convertPdfToImage: File objects
ResumePdf == [name |-> "resume.pdf", lastModified |-> 1, size |-> 2, type |-> PdfType,
           content |-> "A"]
\* the name and lastModified of ResumePdf, other bytes
ResumeEdited == [name |-> "resume.pdf", lastModified |-> 1, size |-> 3, type |-> PdfType,
                 content |-> "B"]
Cv == [name |-> "cv.PDF", lastModified |-> 12, size |-> 2, type |-> PdfType,
       content |-> "A"]
EmptyResume == [name |-> "resume.pdf", lastModified |-> 1, size |-> 0, type |-> PdfType,
                content |-> ""]
PngResume == [name |-> "resume.pdf", lastModified |-> 1, size |-> 2, type |-> "image/png",
              content |-> "A"]
\* not the PDF media type, yet a type that has the letters pdf in it
PdfMark == [name |-> "marks.ps", lastModified |-> 1, size |-> 2, type |-> "text/x-pdfmark",
            content |-> "A"]

Documents == {ResumePdf, ResumeEdited, Cv, EmptyResume, PngResume, PdfMark, NullV}

\* `${file.name}-${file.lastModified}`
CacheKey(file) == file.name \o "-" \o NumberString(file.lastModified)

\* String(err) of a thrown value; of an Error its message is used instead
MessageOf(err) == ErrorMessage(err, err.message)

NullNameError == [isError |-> TRUE, message |-> "Cannot read properties of null (reading 'name')"]
ImportError == [isError |-> TRUE, message |-> "Failed to fetch dynamically imported module"]
WorkerError == [isError |-> TRUE,
                message |-> "Cannot set properties of undefined (setting 'workerSrc')"]
InvalidPdf == [isError |-> TRUE, message |-> "Invalid PDF structure"]
ContextError == [isError |-> TRUE, message |-> "Failed to get canvas 2D context"]
SecurityError == [isError |-> TRUE, message |-> "Tainted canvases may not be exported"]

\* what the engine and the reads of the file reject with
EngineRejections == {InvalidPdf, NonError}

\* the error thrown at pdf2img.ts:145
RenderError(err) == [isError |-> TRUE, message |-> "Failed to render PDF: " \o MessageOf(err)]

\* an error result that lost its message
ErrorResultNoMessage(msg) == [imageUrl |-> "", file |-> NullV]

\* a PdfConversionResult without a file
ErrorResult(msg) == [imageUrl |-> "", file |-> NullV, error |-> msg]

\* the result of the catch of pdf2img.ts:247-254
ConversionError(err) == ErrorResult("Failed to convert PDF to image: " \o MessageOf(err))

\* the result of the catch of pdf2img.ts:193-201
DataUrlError(err) ==
    ErrorResult("Failed to create image using toDataURL: " \o MessageOf(err))

\* the result built at pdf2img.ts:184-187 and 219-222; n counts the object URLs made
ImageResult(file, n) ==
    [imageUrl |-> "blob:" \o NumberString(n),
     file |-> [name |-> OriginalName(file.name) \o ".png", type |-> "image/png",
               content |-> file.content]]

\* what the checks of pdf2img.ts:73-93 return; NullV when the document passes
Validation(file) ==
    IF file = NullV THEN ConversionError(NullNameError)
    ELSE IF file.size = 0 THEN ErrorResult("Invalid file provided for conversion")
    ELSE IF ~Includes(file.type, "pdf") THEN ErrorResult("File is not a PDF")
    ELSE NullV

-----------------------------------------------------------------------------
(* The document renderer: convertPdfToImage and loadPdfJs *)

\* a call the checks of pdf2img.ts:73-102 answer: nothing is awaited
Answered(file, v) ==
    [file |-> file, at |-> "ended", reached |-> "entry", result |-> Returned(v),
     timer |-> "unset", primary |-> "none", secondary |-> "none", late |-> FALSE]

\* a call suspended at `await loadPdfJs()`, pdf2img.ts:105; late tells that the
\* loadPromise which loadPdfJs returned at pdf2img.ts:26 had already rejected
Loading(file) ==
    [file |-> file, at |-> "load", reached |-> "load", result |-> Pending,
     timer |-> "unset", primary |-> "none", secondary |-> "none",
     late |-> loadPromise.state = "rejected"]

\* the call goes on to its next await
Advance(c, to) == [c EXCEPT !.at = to, !.reached = to]

\* resolve(v) of the encode promise: a promise already rejected keeps its rejection
Resolve(c, v) == IF c.result = Pending THEN Returned(v) ELSE c.result

\* clearTimeout(timeoutId): nothing to clear once the timer has fired
Cleared(t) == IF t = "armed" THEN "cleared" ELSE t

\* the call ends with v
Ended(c, v) == [c EXCEPT !.at = "ended", !.timer = Cleared(c.timer), !.result = Resolve(c, v)]

\* loadPdfJs without the test of loadPromise at pdf2img.ts:26
LoadPdfJsUnshared ==
    IF pdfjsLib # "null"
    THEN UNCHANGED << pdfjsLib, isLoading, loadPromise, imports >>
    ELSE /\ isLoading' = TRUE
         /\ loadPromise' = [state |-> "pending"]
         /\ imports' = imports + 1
         /\ UNCHANGED pdfjsLib

\* loadPdfJs up to its return, pdf2img.ts:24-67
LoadPdfJs ==
    IF pdfjsLib # "null" \/ loadPromise.state # "null"
    THEN UNCHANGED << pdfjsLib, isLoading, loadPromise, imports >>
    ELSE /\ isLoading' = TRUE
         /\ loadPromise' = [state |-> "pending"]
         /\ imports' = imports + 1
         /\ UNCHANGED pdfjsLib

\* convertPdfToImage(file) up to its first await, pdf2img.ts:69-105
ConvertPdfToImage ==
    /\ pc = "render"
    /\ Len(convs) < MaxConverts
    /\ \E file \in Documents :
        IF Validation(file) # NullV
        THEN /\ convs' = Append(convs, Answered(file, Validation(file)))
             /\ UNCHANGED << pdfjsLib, isLoading, loadPromise, imports >>
        ELSE IF CacheKey(file) \in DOMAIN pdfCache
        THEN /\ convs' = Append(convs, Answered(file, pdfCache[CacheKey(file)]))
             /\ UNCHANGED << pdfjsLib, isLoading, loadPromise, imports >>
        ELSE /\ convs' = Append(convs, Loading(file))
             /\ LoadPdfJs
    /\ UNCHANGED << appVars, pdfCache, urls >>

\* the import resolves and the worker source is set, pdf2img.ts:31-54
ImportResolves ==
    /\ loadPromise.state = "pending"
    /\ \E workerSrc \in {"set", "alternative set", "throws"} :
        IF workerSrc = "throws"
        THEN /\ loadPromise' = [state |-> "rejected", error |-> WorkerError]
             /\ UNCHANGED pdfjsLib
        ELSE /\ loadPromise' = [state |-> "fulfilled"]
             /\ pdfjsLib' = "lib"
    /\ isLoading' = FALSE
    /\ UNCHANGED << appVars, pdfCache, convs, imports, urls >>

\* the import rejects and loadPromise is reset, so that a later call loads again
ImportRejectsForgotten ==
    /\ loadPromise.state = "pending"
    /\ loadPromise' = [state |-> "null"]
    /\ isLoading' = FALSE
    /\ UNCHANGED << appVars, pdfjsLib, pdfCache, convs, imports, urls >>

\* the import rejects, pdf2img.ts:55-59
ImportRejects ==
    /\ loadPromise.state = "pending"
    /\ loadPromise' = [state |-> "rejected", error |-> ImportError]
    /\ isLoading' = FALSE
    /\ UNCHANGED << appVars, pdfjsLib, pdfCache, convs, imports, urls >>

\* `await loadPdfJs()` with the rejection of the load left uncaught
AfterLoadUncaught ==
    /\ \E i \in 1..Len(convs) :
        /\ convs[i].at = "load"
        /\ loadPromise.state \in {"fulfilled", "rejected"}
        /\ convs' = [convs EXCEPT ![i] =
                        IF loadPromise.state = "fulfilled"
                        THEN Advance(@, "read")
                        ELSE [@ EXCEPT !.at = "ended", !.result = Threw(loadPromise.error)]]
    /\ UNCHANGED << appVars, pdfjsLib, isLoading, loadPromise, pdfCache, imports, urls >>

\* `await loadPdfJs()` returns or throws, pdf2img.ts:105-109
AfterLoad ==
    /\ \E i \in 1..Len(convs) :
        /\ convs[i].at = "load"
        /\ loadPromise.state \in {"fulfilled", "rejected"}
        /\ convs' = [convs EXCEPT ![i] =
                        IF loadPromise.state = "fulfilled"
                        THEN Advance(@, "read")
                        ELSE Ended(@, ConversionError(loadPromise.error))]
    /\ UNCHANGED << appVars, pdfjsLib, isLoading, loadPromise, pdfCache, imports, urls >>

\* the image is built, cached and given to resolve, pdf2img.ts:177-192 and 213-227
StoreImage(i, c) ==
    LET result == ImageResult(c.file, urls + 1) IN
    /\ urls' = urls + 1
    /\ pdfCache' = (CacheKey(c.file) :> result) @@ pdfCache
    /\ convs' = [convs EXCEPT ![i] = Ended(c, result)]

\* the primary path's failure reported without trying toDataURL
TryWithDataURLSkipped(i, c) ==
    /\ convs' = [convs EXCEPT ![i] = Ended(c, ErrorResult("Failed to create image blob"))]
    /\ UNCHANGED << pdfCache, urls >>

\* tryWithDataURL, pdf2img.ts:158-202
TryWithDataURL(i, c) ==
    \/ StoreImage(i, [c EXCEPT !.secondary = "image"])
    \/ /\ convs' = [convs EXCEPT ![i] =
                       Ended([c EXCEPT !.secondary = "throws"], DataUrlError(SecurityError))]
       /\ UNCHANGED << pdfCache, urls >>

\* the encode promise is made: the timer is set and toBlob is called, pdf2img.ts:149-245
Encode(i, c) ==
    \/ /\ convs' = [convs EXCEPT ![i] = [Advance(c, "encode") EXCEPT !.timer = "armed"]]
       /\ UNCHANGED << pdfCache, urls >>
    \/ TryWithDataURL(i, [Advance(c, "encode") EXCEPT !.timer = "armed", !.primary = "throws"])

\* an awaited read or engine call resolves, pdf2img.ts:109-148
StepResolves ==
    /\ \E i \in 1..Len(convs) :
        LET c == convs[i] IN
        /\ c.at \in {"read", "document", "page", "render"}
        /\ CASE c.at = "read" ->
                    /\ convs' = [convs EXCEPT ![i] = Advance(c, "document")]
                    /\ UNCHANGED << pdfCache, urls >>
             [] c.at = "document" ->
                    /\ convs' = [convs EXCEPT ![i] = Advance(c, "page")]
                    /\ UNCHANGED << pdfCache, urls >>
             [] c.at = "page" ->
                    /\ \E context \in BOOLEAN :
                        convs' = [convs EXCEPT ![i] =
                                     IF context THEN Advance(c, "render")
                                     ELSE Ended(c, ConversionError(ContextError))]
                    /\ UNCHANGED << pdfCache, urls >>
             [] c.at = "render" -> Encode(i, c)
    /\ UNCHANGED << appVars, pdfjsLib, isLoading, loadPromise, imports >>

\* an awaited read or engine call rejects, pdf2img.ts:143-146 and 247-254
StepRejects ==
    /\ \E i \in 1..Len(convs), err \in EngineRejections :
        LET c == convs[i] IN
        /\ c.at \in {"read", "document", "page", "render"}
        /\ convs' = [convs EXCEPT ![i] =
                        Ended(c, ConversionError(IF c.at = "render" THEN RenderError(err)
                                                 ELSE err))]
    /\ UNCHANGED << appVars, pdfjsLib, isLoading, loadPromise, pdfCache, imports, urls >>

\* the callback given to canvas.toBlob is called, pdf2img.ts:206-237
ToBlobCallback ==
    /\ \E i \in 1..Len(convs) :
        LET c == convs[i] IN
        /\ c.at = "encode"
        /\ \/ StoreImage(i, [c EXCEPT !.primary = "blob"])
           \/ TryWithDataURL(i, [c EXCEPT !.primary = "null"])
           \/ TryWithDataURL(i, [c EXCEPT !.primary = "no file"])
    /\ UNCHANGED << appVars, pdfjsLib, isLoading, loadPromise, imports >>

\* without the timeout of pdf2img.ts:151-154 having any effect
EncodeTimerFiresUnheard ==
    /\ \E i \in 1..Len(convs) :
        /\ convs[i].timer = "armed"
        /\ convs' = [convs EXCEPT ![i].timer = "fired"]
    /\ UNCHANGED << appVars, pdfjsLib, isLoading, loadPromise, pdfCache, imports, urls >>

\* the timer of the encode promise fires, pdf2img.ts:151-154
EncodeTimerFires ==
    /\ \E i \in 1..Len(convs) :
        /\ convs[i].timer = "armed"
        /\ convs' = [convs EXCEPT ![i].timer = "fired",
                                  ![i].result = Threw(EncodeTimeout)]
    /\ UNCHANGED << appVars, pdfjsLib, isLoading, loadPromise, pdfCache, imports, urls >>

InitRenderer ==
    /\ pdfjsLib = "null"
    /\ isLoading = FALSE
    /\ loadPromise = [state |-> "null"]
    /\ pdfCache = << >>
    /\ convs = << >>
    /\ imports = 0
    /\ urls = 0

-----------------------------------------------------------------------------
(* The pipeline: one run of handleAnalyze against doubles or the adapters *)

InitRun ==
    /\ now = 0
    /\ isProcessing = FALSE
    /\ statusText = ""
    /\ statusLog = << >>
    /\ globalTimer = [state |-> "unset", due |-> 0]
    /\ uploadedFile = UndefinedV
    /\ imageFile = UndefinedV
    /\ uploadedImage = UndefinedV
    /\ uuid = NoId
    /\ idCount = 0
    /\ data = UndefinedV
    /\ parsed = FALSE
    /\ navigated = NoId
    /\ failedAt = "none"
    /\ calls = << >>
    /\ results = << >>
    /\ awaiting = Idle
    /\ timers = {}
    /\ kvStore = << >>
    /\ second = NotStarted
    /\ InitRenderer

Init ==
    /\ env \in {"doubles", "puter", "noputer"}
    /\ pc = "idle"
    /\ InitRun

Next ==
    \/ HandleAnalyze
    \/ DoubleReturns
    \/ DoubleThrows
    \/ BackendResolves
    \/ BackendRejects
    \/ UploadForAIResolves
    \/ UploadForAIRejects
    \/ AdapterUnavailable
    \/ TimerFires
    \/ ConvertResolves
    \/ ConvertRejects
    \/ GlobalTimeoutFires
    \/ Tick

Spec == Init /\ [][Next]_vars

-----------------------------------------------------------------------------
(* Two runs: the form is submitted again while the first run is in flight *)

TwoRunNext ==
    \/ Next
    \/ HandleAnalyzeAgain

TwoRunSpec == Init /\ [][TwoRunNext]_vars

-----------------------------------------------------------------------------
(* The adapters alone: a driver calls port operations one after the other *)

ProbeCalls ==
    {[op |-> "upload", file |-> File],
     [op |-> "kvGet", key |-> KeyOf("u1")],
     [op |-> "kvSet", key |-> KeyOf("u1"), value |-> Stringify(NewData("u1", DocumentItem, ImageItem))],
     [op |-> "feedback", file |-> PathArg(DocumentItem.path),
      message |-> PrepareInstructions(JobTitle, JobDescription)],
     [op |-> "feedback", file |-> FileArg,
      message |-> PrepareInstructions(JobTitle, JobDescription)],
     [op |-> "read", path |-> DocumentItem.path],
     [op |-> "write", path |-> DocumentItem.path, data |-> "text"],
     [op |-> "delete", path |-> DocumentItem.path],
     [op |-> "list", path |-> "/store"],
     [op |-> "kvDelete", key |-> KeyOf("u1")],
     [op |-> "kvList", pattern |-> KeyOf("*")],
     [op |-> "kvFlush"],
     [op |-> "chat", prompt |-> PrepareInstructions(JobTitle, JobDescription)],
     [op |-> "img2txt", image |-> ImageItem.path],
     [op |-> "getUser"],
     [op |-> "signIn"],
     [op |-> "signOut"]}

ProbeCall ==
    /\ pc = "probe"
    /\ awaiting.on = "nothing"
    /\ Len(calls) < MaxProbes
    /\ \E call \in ProbeCalls :
        /\ calls' = Append(calls, call)
        /\ results' = Append(results, Pending)
        /\ awaiting' = AwaitOf(call)
        /\ timers' = timers \cup TimersOf(call)
    /\ UNCHANGED << rendererVars, second, env, now, pc, runVars, kvStore >>

PortInit ==
    /\ env \in {"puter", "noputer"}
    /\ pc = "probe"
    /\ InitRun

PortNext ==
    \/ ProbeCall
    \/ BackendResolves
    \/ BackendRejects
    \/ UploadForAIResolves
    \/ UploadForAIRejects
    \/ AdapterUnavailable
    \/ TimerFires
    \/ Tick

PortSpec == PortInit /\ [][PortNext]_vars

-----------------------------------------------------------------------------
(* The renderer alone: a driver calls convertPdfToImage, also while earlier *)
(* calls are suspended                                                     *)

RenderInit ==
    /\ env = "doubles"
    /\ pc = "render"
    /\ InitRun

RenderNext ==
    \/ ConvertPdfToImage
    \/ ImportResolves
    \/ ImportRejects
    \/ AfterLoad
    \/ StepResolves
    \/ StepRejects
    \/ ToBlobCallback
    \/ EncodeTimerFires

RenderSpec == RenderInit /\ [][RenderNext]_vars

-----------------------------------------------------------------------------
(* Properties *)

SetCalls == {i \in 1..Len(calls) : calls[i].op = "kvSet"}
PortCalls == {i \in 1..Len(calls) : calls[i].op # "convert"}

\* the stage a call of the run belongs to
StageOf(i) ==
    CASE calls[i].op = "upload" -> "upload"
      [] calls[i].op = "convert" -> "convert"
      [] calls[i].op = "kvSet" -> "persist"
      [] calls[i].op = "feedback" -> "analyze"

IsErrorResult(r) == r.how = "returned" /\ "error" \in DOMAIN r.value

\* the call returned what its stage needs: a value that is no error, an image
CallSucceeded(i) ==
    /\ results[i].how = "returned"
    /\ Truthy(results[i].value)
    /\ "error" \notin DOMAIN results[i].value
    /\ calls[i].op = "convert" => results[i].value.file # NullV

\* both uploads, the conversion, both sets, the inference call and the parse succeeded
RunSucceeded ==
    /\ Len(calls) = 6
    /\ \A i \in 1..6 : CallSucceeded(i)
    /\ parsed

EmptyFeedback == JsonString("")

\* the value JSON.parse gave for the response of the inference call
ParsedFeedback == ParseJSON(FeedbackText(results[5].value).text).value

TwoSetsSameKey ==
    /\ SetCalls = {4, 6}
    /\ calls[4].key = calls[6].key
    /\ calls[4].key = "resume:" \o uuid
    /\ calls[4].value.feedback = EmptyFeedback
    /\ pc = "done"
    /\ navigated = "/resume/" \o uuid

C2_ErrorResultStopsRun ==
    \A i \in PortCalls :
        IsErrorResult(results[i]) =>
            /\ i = Len(calls)
            /\ pc = "failed"
            /\ failedAt = StageOf(i)
            /\ \E k \in 1..Len(statusLog) : IsError(statusLog[k])

\* C3, as claimed: an exception thrown by a port call stops the pipeline at the stage
\* of the call, a failure is reported on the status channel, the global deadline
\* timer is cancelled, and no later call is made.
C3_ExceptionStopsRun ==
    \A i \in PortCalls :
        results[i].how = "threw" =>
            /\ i = Len(calls)
            /\ pc = "failed"
            /\ failedAt = StageOf(i)
            /\ \E k \in 1..Len(statusLog) : IsError(statusLog[k])
            /\ globalTimer.state # "armed"

\* C4, as claimed: once the global deadline has expired and the run is marked failed,
\* no later stage completion sets a status text, makes a port call, writes a record
\* or emits the success redirect.
C4_LateCompletionsIgnored ==
    [][globalTimer.state = "fired" =>
          /\ statusLog' = statusLog
          /\ calls' = calls
          /\ kvStore' = kvStore
          /\ navigated' = navigated]_vars

KeysUseIdentifier ==
    /\ \A i \in SetCalls : calls[i].key = "resume:" \o uuid
    /\ navigated # NoId => navigated = "/resume/" \o uuid

StageOrder == << "upload", "convert", "upload", "kvSet", "feedback", "kvSet" >>

\* C6, as claimed: the calls of a run are a prefix of upload(document), convert,
\* upload(image), set(empty feedback), feedback, set(with feedback); a stage starts
\* only after the one before it has succeeded; one call at most is in flight, the
\* last one; no call is repeated.
C6_StrictSequence ==
    /\ Len(calls) <= Len(StageOrder)
    /\ \A i \in 1..Len(calls) : calls[i].op = StageOrder[i]
    /\ \A i \in 1..Len(calls) : i < Len(calls) => CallSucceeded(i)
    /\ \A i \in 1..Len(calls) : results[i] = Pending => i = Len(calls)
    /\ Len(calls) >= 3 => calls[1].file = File /\ calls[3].file = imageFile.file
    /\ Len(calls) >= 4 => calls[4].value.feedback = EmptyFeedback
    /\ Len(calls) >= 6 => calls[6].value.feedback = ParsedFeedback

StoredFeedbackEmpty(key) == kvStore[key].feedback = EmptyFeedback

\* C7, as claimed: at every moment the record stored under the key of the run has
\* empty feedback exactly when the analysis of the run has not completed.
C7_Original ==
    \A key \in DOMAIN kvStore : StoredFeedbackEmpty(key) <=> ~parsed

\* C7, amended: a stored record has non-empty feedback only if the inference call has
\* returned and its response has been parsed (a record with empty feedback says
\* nothing: it stays while the final set is pending or has failed); and when the
\* final set has returned from a store that wrote it, the stored record carries the
\* parsed feedback.
C7_PopulatedOnlyAfterParse ==
    /\ \A key \in DOMAIN kvStore :
          ~StoredFeedbackEmpty(key) =>
              /\ parsed
              /\ Len(calls) = 6
              /\ CallSucceeded(5)
              /\ kvStore[key].feedback = ParsedFeedback
    /\ (Len(calls) = 6 /\ CallSucceeded(6)) =>
          /\ DOMAIN kvStore = {"resume:" \o uuid}
          /\ kvStore["resume:" \o uuid] = calls[6].value
          /\ kvStore["resume:" \o uuid].feedback = ParsedFeedback

C7_Witness ==
    /\ uuid # NoId
    /\ ("resume:" \o uuid) \in DOMAIN kvStore
    /\ kvStore["resume:" \o uuid].feedback = JsonObject
    /\ pc = "done"

\* C8, as claimed: a run whose inference call never resolves ends in Failed,
\* attributed to the analyze stage or to a timeout, when the inference timeout
\* elapses; it does not wait longer and makes no second set call.
C8_InferenceTimeout ==
    /\ (pc = "feedback" /\ awaiting.on = "race") => now <= awaiting.due
    /\ (Len(calls) >= 5 /\ results[5] = Returned(AdapterTimedOut("feedback"))) =>
          /\ Len(calls) = 5
          /\ pc = "failed"
          /\ failedAt \in {"analyze", "timeout"}

TimeoutText == "Error: The operation timed out after 5 minutes. Please try again."

C10_EveryPortCallTimesOut ==
    awaiting.on \in {"race", "uploadForAI"} => now <= awaiting.due

-----------------------------------------------------------------------------
(* Properties of the renderer *)

Convs == 1..Len(convs)

\* the call has returned an image
Succeeded(c) == c.result.how = "returned" /\ c.result.value.file # NullV

\* the call has returned a result that has no file and a non-empty error
ReturnedError(c) ==
    /\ c.result.how = "returned"
    /\ c.result.value.file = NullV
    /\ "error" \in DOMAIN c.result.value
    /\ c.result.value.error # ""

\* the fingerprint of a document: its name and modification time
SameFingerprint(f, g) == f.name = g.name /\ f.lastModified = g.lastModified

\* the primary encode path has failed in one of its three ways
PrimaryFailed(c) == c.primary \in {"null", "throws", "no file"}

\* C11: a conversion that fails, by the engine load, the document, the page,
\* the rendering, both encode paths or the encode timeout, resolves with file
\* null and a non-empty error: the promise of convertPdfToImage never rejects.
C11_FailuresResolve ==
    \A i \in Convs :
        /\ convs[i].result.how # "threw"
        /\ (convs[i].at = "ended" /\ ~Succeeded(convs[i])) => ReturnedError(convs[i])

\* C12: once a call has returned an image for a fingerprint, a call that
\* starts later with a valid document of that fingerprint returns that same
\* result object and reaches neither loadPdfJs nor the engine.
C12_LaterCallsReturnFirstResult ==
    [][\A i \in Convs :
          (/\ Len(convs') = Len(convs) + 1
           /\ Succeeded(convs[i])
           /\ Validation(convs'[Len(convs')].file) = NullV
           /\ SameFingerprint(convs'[Len(convs')].file, convs[i].file))
          => /\ convs'[Len(convs')].result = convs[i].result
             /\ convs'[Len(convs')].reached = "entry"
             /\ imports' = imports]_vars

\* C13 as stated: whenever the primary encode path has failed, the secondary
\* has been tried before any error came back, and when the secondary gave an
\* image the call has returned a successful result.
C13_Original ==
    \A i \in Convs :
        PrimaryFailed(convs[i]) =>
            /\ convs[i].secondary # "none"
            /\ convs[i].secondary = "image" => Succeeded(convs[i])

\* C13 amended: when the primary encode path fails before the encode wait has
\* expired, the secondary is tried; the call returns a successful result,
\* which is also the cache entry, when the secondary gives an image, and the
\* toDataURL error result when it does not.
C13_FallbackWithinWait ==
    \A i \in Convs :
        (PrimaryFailed(convs[i]) /\ convs[i].timer # "fired") =>
            /\ convs[i].secondary # "none"
            /\ convs[i].secondary = "image" =>
                    /\ Succeeded(convs[i])
                    /\ "error" \notin DOMAIN convs[i].result.value
            /\ convs[i].secondary = "throws" =>
                    convs[i].result = Returned(DataUrlError(SecurityError))

C13_Witness ==
    \E i \in Convs :
        /\ convs[i].primary = "null"
        /\ convs[i].secondary = "image"
        /\ convs[i].timer = "cleared"
        /\ Succeeded(convs[i])

\* C14: once the encode step has started the call does not wait without a
\* deadline, and when the encode wait is exceeded the call has returned an
\* error result (file null, error populated).
C14_EncodeWaitBounded ==
    \A i \in Convs :
        /\ (convs[i].reached = "encode" /\ convs[i].result = Pending)
                => convs[i].timer = "armed"
        /\ convs[i].timer = "fired" => ReturnedError(convs[i])

\* the document is empty or its declared media type is not application/pdf
Unaccepted(file) == file # NullV /\ (file.size = 0 \/ file.type # PdfType)

\* C15: a call with an empty document, or one whose media type is not the
\* PDF type, returns file null and a non-empty error without reaching
\* loadPdfJs or the cache, whatever the cache holds.
C15_UnacceptedDocumentsRejected ==
    \A i \in Convs :
        Unaccepted(convs[i].file) =>
            /\ convs[i].reached = "entry"
            /\ ReturnedError(convs[i])

\* C16: while the engine load is in flight or the engine is loaded, no step
\* starts another load, and a call that arrives meanwhile waits on the load
\* in flight.
C16_LoadShared ==
    [][(loadPromise.state \in {"pending", "fulfilled"} \/ pdfjsLib # "null")
          => /\ imports' = imports
             /\ (Len(convs') = Len(convs) + 1 /\ convs'[Len(convs')].at # "ended")
                    => convs'[Len(convs')].at = "load"]_vars

C16_Witness ==
    /\ loadPromise.state = "pending"
    /\ imports = 1
    /\ \E i, j \in Convs : i # j /\ convs[i].at = "load" /\ convs[j].at = "load"

\* C17: when the engine load has failed, every call that waited on it is
\* either about to resume or has returned the error result carrying the
\* load's message, and the cache has no entry.
C17_LoadFailureReturned ==
    loadPromise.state = "rejected" =>
        /\ pdfCache = << >>
        /\ \A i \in Convs :
              convs[i].reached # "entry" =>
                  /\ convs[i].reached = "load"
                  /\ convs[i].at = "ended" =>
                        convs[i].result = Returned(ConversionError(loadPromise.error))

C17_Witness ==
    /\ loadPromise.state = "rejected"
    /\ \E i, j \in Convs :
          /\ i # j
          /\ convs[i].reached = "load" /\ ReturnedError(convs[i])
          /\ convs[j].reached = "load" /\ ReturnedError(convs[j])

\* file is non-null exactly when error is absent, and then the URL is not empty
WellFormed(r) ==
    /\ (r.file # NullV) <=> ("error" \notin DOMAIN r)
    /\ "error" \in DOMAIN r => r.error # ""
    /\ r.file # NullV => r.imageUrl # ""

\* C18: every result a call has returned, and every value in the cache, has
\* either a file and a display URL or a non-empty error, never both or neither.
C18_PayloadXorError ==
    /\ \A i \in Convs : convs[i].result.how = "returned" => WellFormed(convs[i].result.value)
    /\ \A k \in DOMAIN pdfCache : WellFormed(pdfCache[k])

C18_Witness ==
    /\ pdfCache # << >>
    /\ \E i, j \in Convs : Succeeded(convs[i]) /\ ReturnedError(convs[j])

-----------------------------------------------------------------------------
(* Properties of the adapters *)

\* a ServiceResult in its error branch: error is set and data is not
ErrorBranch(r) ==
    /\ r.how = "returned"
    /\ "error" \in DOMAIN r.value
    /\ "data" \notin DOMAIN r.value

\* C19: every result an adapter operation returns has data or error and not
\* both, no operation throws, and a step in which the backend call rejects,
\* or in which the backend is found absent, leaves the operation returned in
\* the error branch.
C19_ErrorBranchNeverThrown ==
    [][/\ \A i \in 1..Len(results') :
              results'[i] # Pending =>
                  /\ results'[i].how = "returned"
                  /\ {"data", "error"} \cap DOMAIN results'[i].value # {}
                  /\ ~({"data", "error"} \subseteq DOMAIN results'[i].value)
       /\ (BackendRejects \/ UploadForAIRejects \/ AdapterUnavailable)
              => ErrorBranch(results'[Len(calls)])]_vars

-----------------------------------------------------------------------------
(* Properties of the status channel *)

\* the progress texts of a run, in the order handleAnalyze sets them
Progress ==
    << "Uploading the file...", "Converting to image...", "Uploading the image...",
       "Preparing data...", "Analyzing...", "Analysis complete, redirecting..." >>

IsPrefix(s, t) == Len(s) <= Len(t) /\ \A k \in 1..Len(s) : s[k] = t[k]

\* the status texts without the Error: message that ends them, if one does
BeforeError ==
    IF statusLog # << >> /\ IsError(statusLog[Len(statusLog)])
    THEN SubSeq(statusLog, 1, Len(statusLog) - 1)
    ELSE statusLog

\* C20: the status texts of a run are a prefix of the progress sequence,
\* followed by at most one Error: message after which nothing is emitted; a
\* run that has redirected has emitted the whole sequence and no Error:
\* message, and a run that has failed has emitted its Error: message.
C20_StatusSequence ==
    /\ IsPrefix(BeforeError, Progress)
    /\ navigated # NoId => statusLog = Progress
    /\ pc \in {"failed", "crashed"} => BeforeError # statusLog

-----------------------------------------------------------------------------
(* Properties of the stages of a run *)

\* a set call that threw or returned a ServiceResult in its error branch
SetFailed(i) ==
    /\ calls[i].op = "kvSet"
    /\ results[i].how = "threw" \/ IsErrorResult(results[i])

\* C21: the redirect is made only when the final set has succeeded and the
\* store holds the record with the parsed feedback; a set that fails, the
\* initial or the final one, is the last call of the run, which ends in
\* Failed at the persist stage without a redirect.
C21_SuccessOnlyAfterFinalSet ==
    /\ navigated # NoId =>
          /\ Len(calls) = 6
          /\ CallSucceeded(6)
          /\ KeyOf(uuid) \in DOMAIN kvStore
          /\ kvStore[KeyOf(uuid)] = calls[6].value
    /\ \A i \in SetCalls :
          SetFailed(i) =>
              /\ i = Len(calls)
              /\ pc = "failed"
              /\ failedAt = "persist"
              /\ navigated = NoId

\* the conversion of the run threw, or returned a result without a file
ConvertFailed(i) ==
    /\ calls[i].op = "convert"
    /\ \/ results[i].how = "threw"
       \/ results[i].how = "returned" /\ results[i].value.file = NullV

\* C22: a conversion that returns an error and one that throws end the run
\* alike: the conversion is the last call, the run is Failed at the convert
\* stage, the status is Error: followed by the message of the error or of
\* the exception, and the global timer is no longer pending.
C22_ConvertFailureStopsRun ==
    \A i \in 1..Len(calls) :
        ConvertFailed(i) =>
            /\ i = Len(calls)
            /\ pc = "failed"
            /\ failedAt = "convert"
            /\ globalTimer.state # "armed"
            /\ results[i].how = "threw" =>
                  statusText = "Error: " \o results[i].error.message
            /\ results[i].how = "returned" =>
                  statusText = "Error: " \o results[i].value.error

C22_Witness ==
    /\ pc = "failed"
    /\ failedAt = "convert"
    /\ results[Len(results)] = Threw(EncodeTimeout)
    /\ globalTimer.state = "cleared"

\* the path Blob Storage gave for an upload: the path of the FileItem returned
StoredPath(r) ==
    IF "data" \in DOMAIN r.value THEN Prop(r.value.data, "path") ELSE Prop(r.value, "path")

\* C23: when the document upload has succeeded, the inference call is given
\* the path returned for the document, as a string, and the instructions
\* built from the job title and description; a response that is missing
\* ends the run in Failed at the analyze stage without parse or second set.
C23_InferenceGetsDocumentPath ==
    \A i \in 1..Len(calls) :
        (calls[i].op = "feedback" /\ CallSucceeded(1)) =>
            /\ calls[i].file = [type |-> "string", path |-> StoredPath(results[1])]
            /\ calls[i].file.path = DocumentItem.path
            /\ calls[i].message = PrepareInstructions(JobTitle, JobDescription)
            /\ results[i] = Returned(UndefinedV) =>
                  /\ pc = "failed"
                  /\ failedAt = "analyze"
                  /\ ~parsed
                  /\ Cardinality(SetCalls) = 1

\* the response has a content that carries a text: a string, or a sequence
\* that is not empty
CarriesText(v) ==
    /\ "message" \in DOMAIN v
    /\ v.message.content.form = "string" \/ Len(v.message.content.items) > 0

\* the text t of the response
CarriedText(v) ==
    IF v.message.content.form = "string" THEN v.message.content.text
    ELSE v.message.content.items[1].text

\* C24: what the parse stage does with a response depends on the text the
\* response carries and not on the form that carries it: when the text
\* parses, the record holds the parsed value; when it does not, the run is
\* Failed at the parse stage.
C24_OutcomeDependsOnTextOnly ==
    \A i \in 1..Len(calls) :
        (calls[i].op = "feedback" /\ results[i].how = "returned"
            /\ CarriesText(results[i].value)) =>
            IF ParseJSON(CarriedText(results[i].value)).ok
            THEN /\ parsed
                 /\ data.feedback = ParseJSON(CarriedText(results[i].value)).value
                 /\ failedAt # "parse"
            ELSE /\ pc = "failed"
                 /\ failedAt = "parse"
                 /\ ~parsed

C24_Witness ==
    /\ Len(calls) >= 5
    /\ results[5] = Returned([message |-> [content |->
                        SequenceContent(<< TextItem(TextObject), TextItem(TextInvalid) >>)]])
    /\ parsed
    /\ data.feedback = JsonObject

\* C26: no timer is pending once what it guards has finished: a timer of an
\* adapter call belongs to a call that has not returned, and the global
\* timer is not armed when the run has ended.
C26_TimersCancelled ==
    /\ \A t \in timers : results[t.call] = Pending
    /\ globalTimer.state = "armed" => pc \notin {"failed", "crashed", "done"}

\* C29: a run that has ended in Failed has cleared the processing flag.
C29_FailureClearsProcessing ==
    pc = "failed" => ~isProcessing

-----------------------------------------------------------------------------
(* Properties of the renderer's cache and engine load *)

\* C25: every cache entry is the value that a call with the entry's
\* fingerprint has returned to its caller as its result; a call whose
\* caller received a failure has added no entry.
C25_CacheHoldsReturnedResults ==
    \A k \in DOMAIN pdfCache :
        \E i \in Convs :
            /\ Validation(convs[i].file) = NullV
            /\ CacheKey(convs[i].file) = k
            /\ convs[i].result = Returned(pdfCache[k])

\* the call has had its page rasterized by the engine
Rasterized(c) == c.reached = "encode"

\* C28: of the calls with one fingerprint at most one has had the engine
\* rasterize the document, and those that returned an image have all
\* returned the object that the cache holds for the fingerprint.
C28_OneRasterizationPerFingerprint ==
    \A i, j \in Convs :
        (/\ i # j
         /\ Validation(convs[i].file) = NullV
         /\ Validation(convs[j].file) = NullV
         /\ SameFingerprint(convs[i].file, convs[j].file)) =>
            /\ ~(Rasterized(convs[i]) /\ Rasterized(convs[j]))
            /\ (Succeeded(convs[i]) /\ Succeeded(convs[j])) =>
                  /\ convs[i].result = convs[j].result
                  /\ CacheKey(convs[i].file) \in DOMAIN pdfCache
                  /\ convs[i].result.value = pdfCache[CacheKey(convs[i].file)]

\* C30: the import of the engine is started at most once; once the load has
\* failed it stays failed, no step starts another import, a call with a
\* valid document that starts then finds the failed load, and every call
\* that ends then has returned a result with file null and the error of the
\* load or of its own validation.
C30_LoadStartedAtMostOnce ==
    [][/\ imports' <= 1
       /\ loadPromise.state = "rejected" =>
             /\ loadPromise' = loadPromise
             /\ imports' = imports
             /\ pdfjsLib' = "null"
             /\ Len(convs') = Len(convs) + 1 =>
                   LET c == convs'[Len(convs')] IN
                   IF Validation(c.file) = NullV
                   THEN c.at = "load" /\ c.late
                   ELSE ReturnedError(c)
             /\ \A i \in Convs :
                   (convs[i].at # "ended" /\ convs'[i].at = "ended") =>
                       convs'[i].result = Returned(ConversionError(loadPromise.error))]_vars

C30_Witness ==
    /\ imports = 1
    /\ loadPromise.state = "rejected"
    /\ \E i \in Convs :
          /\ convs[i].late
          /\ convs[i].at = "ended"
          /\ convs[i].result = Returned(ConversionError(ImportError))

-----------------------------------------------------------------------------
(* Properties of two runs in flight *)

\* C27: while the second run is in flight the component shows the second
\* run's state: the status is the one the second run set last and the
\* processing flag it set is up; the first run writes neither.
C27_RunsDoNotInterfere ==
    second.pc = "uploadDoc" =>
        /\ statusText = second.status
        /\ isProcessing

-----------------------------------------------------------------------------
(* Properties of the cache key *)

\* the call was answered from the cache, pdf2img.ts:99-102
CacheHit(c) == Validation(c.file) = NullV /\ c.reached = "entry" /\ Succeeded(c)

\* which of the object URLs made so far the image carries
ImageNumber(v) == CHOOSE n \in 1..urls : v.imageUrl = "blob:" \o NumberString(n)

\* C31: a call answered from the cache returns, whatever the content and
\* size of its document, the image that was made first for the document's
\* name and modification time: no call with that name and modification
\* time has returned an image made earlier, and two calls answered from the
\* cache for it have returned the identical result.
C31_HitReturnsFirstConverted ==
    \A i, j \in Convs :
        (/\ CacheHit(convs[j])
         /\ Validation(convs[i].file) = NullV
         /\ SameFingerprint(convs[i].file, convs[j].file)
         /\ Succeeded(convs[i])) =>
            /\ ImageNumber(convs[j].result.value) <= ImageNumber(convs[i].result.value)
            /\ CacheHit(convs[i]) => convs[i].result = convs[j].result

====
